---------------------------- MODULE Spec2Model ----------------------------
(***************************************************************************)
(* The SynthMark command-line driver, src/apps/synthmark.cpp.              *)
(*                                                                         *)
(* main() parses argv into nine locals, validates them, constructs one of  *)
(* four test harnesses, configures it, calls runTest once and returns the  *)
(* result code.  The model follows main() statement group by statement     *)
(* group.  The harness classes, VirtualAudioSink and SynthMarkResult are   *)
(* not part of src/: the model records every call main() makes on them     *)
(* (the call log `calls`) and the values it hands over, and treats what    *)
(* runTest leaves in the SynthMarkResult as a nondeterministic choice.    *)
(*                                                                         *)
(* A character is a one-character string; an argument is a tuple of        *)
(* characters, the terminating NUL left implicit.                          *)
(***************************************************************************)
EXTENDS Integers, Sequences, FiniteSets, TLC

VARIABLES
    argv,                   \* argv[1..argc-1]: the arguments after the program name
    iarg,                   \* loop index of the parsing loop
    pc,                     \* position of main()
    percentCpu,
    sampleRate,
    framesPerBurst,
    numSeconds,
    numVoices,
    numVoicesHigh,
    numSecondsDelayNoteOn,
    cpuAffinity,
    testCode,
    harness,                \* TestHarnessBase *harness, NULL or the harness built
    constructed,            \* objects constructed so far, in order
    calls,                  \* calls made on audioSink, harness and result, in order
    result,                 \* the SynthMarkResult
    stdout,                 \* what has been printed, one entry per printf/usage
    exitStatus              \* value returned by main(), "none" while running

vars == <<argv, iarg, pc, percentCpu, sampleRate, framesPerBurst, numSeconds,
          numVoices, numVoicesHigh, numSecondsDelayNoteOn, cpuAffinity,
          testCode, harness, constructed, calls, result, stdout, exitStatus>>

locals == <<percentCpu, sampleRate, framesPerBurst, numSeconds, numVoices,
            numVoicesHigh, numSecondsDelayNoteOn, cpuAffinity, testCode>>

-----------------------------------------------------------------------------
(* Bounds of the model *)

\* Largest number of command-line arguments after the program name.
MaxArgs == 3

-----------------------------------------------------------------------------
(* Constants.  The SYNTHMARK_* values come from SynthMark.h, which is not   *)
(* in src/; no claim depends on their exact values, only on the defaults    *)
(* being a valid configuration.                                             *)

SYNTHMARK_MAX_VOICES == 512
SYNTHMARK_SAMPLE_RATE == 48000
SYNTHMARK_FRAMES_PER_BURST == 64
SYNTHMARK_CPU_UNSPECIFIED == -1
\* the fraction 0.5 as numerator over denominator
SYNTHMARK_TARGET_CPU_LOAD == [num |-> 1, den |-> 2]

DEFAULT_TEST_CODE == "v"
DEFAULT_SECONDS == 10
DEFAULT_FRAMES_PER_BURST == SYNTHMARK_FRAMES_PER_BURST
DEFAULT_NUM_VOICES == 8
DEFAULT_NOTE_ON_DELAY == 0
\* (int)(100 * SYNTHMARK_TARGET_CPU_LOAD)
DEFAULT_PERCENT_CPU == (100 * SYNTHMARK_TARGET_CPU_LOAD.num) \div SYNTHMARK_TARGET_CPU_LOAD.den

NUL == "NUL"
NULL == [class |-> "NULL"]

-----------------------------------------------------------------------------
(* Command lines *)

\* The arguments a command line is built from.  Each switch appears with
\* values on both sides of every comparison main() makes on it.
Args ==
    { <<"-", "c", "1">>,
      <<"-", "p", "0">>, <<"-", "p", "1", "0", "0">>, <<"-", "p", "1", "0", "1">>,
      <<"-", "n">>, <<"-", "n", "-", "1">>,
      <<"-", "n", "5", "1", "2">>, <<"-", "n", "5", "1", "3">>,
      <<"-", "N", "1">>, <<"-", "N", "-", "1">>, <<"-", "N", "6", "0", "0">>,
      <<"-", "d", "-", "1">>, <<"-", "d", "2">>,
      <<"-", "s", "0">>, <<"-", "s", "1">>,
      <<"-", "r", "0">>,
      <<"-", "b", "3">>, <<"-", "b", " ", "4", "x">>,
      <<"-", "t", "l">>, <<"-", "t", "j">>, <<"-", "t", "u">>, <<"-", "t", "x">>,
      <<"-", "h">>, <<"-", "?">>, <<"-", "x">>,
      <<"f", "o", "o">> }

ArgvSet == UNION { [1..n -> Args] : n \in 0..MaxArgs }

\* arg[i] of a C string, i counted from 0; the terminator reads as NUL.
CharAt(arg, i) == IF i < Len(arg) THEN arg[i + 1] ELSE NUL

\* &arg[i]
StrFrom(arg, i) == SubSeq(arg, i + 1, Len(arg))

IsDigit(c) == c \in {"0", "1", "2", "3", "4", "5", "6", "7", "8", "9"}

DigitValue(c) ==
    CASE c = "0" -> 0 [] c = "1" -> 1 [] c = "2" -> 2 [] c = "3" -> 3
      [] c = "4" -> 4 [] c = "5" -> 5 [] c = "6" -> 6 [] c = "7" -> 7
      [] c = "8" -> 8 [] c = "9" -> 9

RECURSIVE SkipSpace(_, _)
SkipSpace(s, i) == IF i <= Len(s) /\ s[i] = " " THEN SkipSpace(s, i + 1) ELSE i

RECURSIVE AtoiDigits(_, _, _)
AtoiDigits(s, i, acc) ==
    IF i <= Len(s) /\ IsDigit(s[i])
    THEN AtoiDigits(s, i + 1, acc * 10 + DigitValue(s[i]))
    ELSE acc

\* atoi(): leading blanks, an optional sign, then the longest run of digits;
\* 0 when there is none.  The arguments of Args stay far below 2^31, where
\* atoi() is defined.
atoi(s) ==
    LET i == SkipSpace(s, 1)
        signed == i <= Len(s) /\ s[i] \in {"-", "+"}
        mag == AtoiDigits(s, IF signed THEN i + 1 ELSE i, 0)
    IN IF signed /\ s[i] = "-" THEN -mag ELSE mag

\* percentCpu * 0.01, as numerator over denominator
TimesOneHundredth(p) == [num |-> p, den |-> 100]

-----------------------------------------------------------------------------
(* Output and call log *)

Usage == <<"usage">>

Call(obj, fn, args) == [obj |-> obj, fn |-> fn, args |-> args]

EmptyFields == [f \in {} |-> 0]

NewHarness(class) ==
    [class |-> class, audioSink |-> "audioSink", result |-> "result",
     fields |-> EmptyFields]

\* a setter of the harness stores its argument
SetField(h, f, v) == [h EXCEPT !.fields = (f :> v) @@ @]

-----------------------------------------------------------------------------
(* main(): declarations, lines 59-74 *)

Init ==
    /\ argv \in ArgvSet
    /\ iarg = 1
    /\ pc = "parse"
    /\ percentCpu = DEFAULT_PERCENT_CPU
    /\ sampleRate = SYNTHMARK_SAMPLE_RATE
    /\ framesPerBurst = DEFAULT_FRAMES_PER_BURST
    /\ numSeconds = DEFAULT_SECONDS
    /\ numVoices = DEFAULT_NUM_VOICES
    /\ numVoicesHigh = 0
    /\ numSecondsDelayNoteOn = DEFAULT_NOTE_ON_DELAY
    /\ cpuAffinity = SYNTHMARK_CPU_UNSPECIFIED
    /\ testCode = DEFAULT_TEST_CODE
    /\ harness = NULL
    /\ constructed = << [class |-> "SynthMarkResult", id |-> "result"],
                        [class |-> "VirtualAudioSink", id |-> "audioSink"] >>
    /\ calls = << >>
    /\ result = [set |-> FALSE]
    /\ stdout = << <<"banner">> >>
    /\ exitStatus = "none"

-----------------------------------------------------------------------------
(* main(): the parsing loop, lines 77-122 *)

ValueSwitches == {"c", "p", "n", "N", "d", "r", "s", "b"}

Return(status) ==
    /\ pc' = "done"
    /\ exitStatus' = status

\* cases 'c' .. 't' of the switch: one local is assigned, the loop goes on
ParseOption ==
    /\ pc = "parse"
    /\ iarg <= Len(argv)
    /\ LET arg == argv[iarg]
           sw == CharAt(arg, 1)
           val == atoi(StrFrom(arg, 2))
       IN /\ CharAt(arg, 0) = "-"
          /\ sw \in ValueSwitches \cup {"t"}
          /\ cpuAffinity' = IF sw = "c" THEN val ELSE cpuAffinity
          /\ percentCpu' = IF sw = "p" THEN val ELSE percentCpu
          /\ numVoices' = IF sw = "n" THEN val ELSE numVoices
          /\ numVoicesHigh' = IF sw = "N" THEN val ELSE numVoicesHigh
          /\ numSecondsDelayNoteOn' = IF sw = "d" THEN val ELSE numSecondsDelayNoteOn
          /\ sampleRate' = IF sw = "r" THEN val ELSE sampleRate
          /\ numSeconds' = IF sw = "s" THEN val ELSE numSeconds
          /\ framesPerBurst' = IF sw = "b" THEN val ELSE framesPerBurst
          /\ testCode' = IF sw = "t" THEN CharAt(arg, 2) ELSE testCode
    /\ iarg' = iarg + 1
    /\ UNCHANGED <<argv, pc, harness, constructed, calls, result, stdout, exitStatus>>

\* cases 'h' and '?': usage, return 0
ParseHelp ==
    /\ pc = "parse"
    /\ iarg <= Len(argv)
    /\ CharAt(argv[iarg], 0) = "-"
    /\ CharAt(argv[iarg], 1) \in {"h", "?"}
    /\ stdout' = Append(stdout, Usage)
    /\ Return(0)
    /\ UNCHANGED <<argv, iarg, locals, harness, constructed, calls, result>>

\* default case of the switch
ParseUnrecognizedSwitch ==
    /\ pc = "parse"
    /\ iarg <= Len(argv)
    /\ CharAt(argv[iarg], 0) = "-"
    /\ CharAt(argv[iarg], 1) \notin ValueSwitches \cup {"t", "h", "?"}
    /\ stdout' = stdout \o << <<"Unrecognized switch">>, Usage >>
    /\ Return(1)
    /\ UNCHANGED <<argv, iarg, locals, harness, constructed, calls, result>>

\* an argument that does not start with '-'
ParseUnrecognizedArgument ==
    /\ pc = "parse"
    /\ iarg <= Len(argv)
    /\ CharAt(argv[iarg], 0) # "-"
    /\ stdout' = stdout \o << <<"Unrecognized argument">>, Usage >>
    /\ Return(1)
    /\ UNCHANGED <<argv, iarg, locals, harness, constructed, calls, result>>

-----------------------------------------------------------------------------
(* main(): validation of the parsed values, lines 123-158 *)

InvalidPercentCpu == percentCpu < 1 \/ percentCpu > 100

\* mutant: a zero voice count passes without a high voice count
InvalidNumVoices_ZeroAllowed ==
    numVoices < 0 \/ numVoices > SYNTHMARK_MAX_VOICES

InvalidNumVoices ==
    \/ (numVoices < 1 /\ numVoicesHigh <= 0)
    \/ numVoices < 0
    \/ numVoices > SYNTHMARK_MAX_VOICES

\* mutant: the high voice count is compared with 0, not with numVoices
InvalidNumVoicesHigh_SignOnly == numVoicesHigh # 0 /\ numVoicesHigh < 0

InvalidNumVoicesHigh == numVoicesHigh # 0 /\ numVoicesHigh < numVoices

\* mutant: the test on the test code is inverted
HighNotForLatency_Inverted == numVoicesHigh # 0 /\ testCode = "l"

HighNotForLatency == numVoicesHigh # 0 /\ testCode # "l"

InvalidDuration == numSeconds < 1

\* mutant: the delay is not compared with the duration
InvalidDelay_NoUpperLimit == numSecondsDelayNoteOn < 0

InvalidDelay == numSecondsDelayNoteOn < 0 \/ numSecondsDelayNoteOn > numSeconds

BlockTooSmall == framesPerBurst < 4

\* What the first failing check prints; << >> when every check passes.
\* The note-on delay check is the one that prints no usage.
Rejection ==
    IF InvalidPercentCpu THEN << <<"Invalid percent CPU", percentCpu>>, Usage >>
    ELSE IF InvalidNumVoices THEN << <<"Invalid num voices", numVoices>>, Usage >>
    ELSE IF InvalidNumVoicesHigh THEN << <<"Invalid num voices high", numVoicesHigh>>, Usage >>
    ELSE IF HighNotForLatency THEN << <<"Num voices high only supported for LatencyMark">>, Usage >>
    ELSE IF InvalidDuration THEN << <<"Invalid duration in seconds", numSeconds>>, Usage >>
    ELSE IF InvalidDelay THEN << <<"Invalid delay for note on", numSecondsDelayNoteOn>> >>
    ELSE IF BlockTooSmall THEN << <<"Block size too small", framesPerBurst>>, Usage >>
    ELSE << >>

\* mutant: the failing check prints its message and main() goes on
ValidateReject_NoReturn ==
    /\ pc = "parse"
    /\ iarg > Len(argv)
    /\ Rejection # << >>
    /\ stdout' = stdout \o Rejection
    /\ pc' = "setRequestedCpu"
    /\ UNCHANGED <<argv, iarg, locals, harness, constructed, calls, result, exitStatus>>

\* the loop has ended and some check fails: message, return 1
ValidateReject ==
    /\ pc = "parse"
    /\ iarg > Len(argv)
    /\ Rejection # << >>
    /\ stdout' = stdout \o Rejection
    /\ Return(1)
    /\ UNCHANGED <<argv, iarg, locals, harness, constructed, calls, result>>

\* the loop has ended and every check passes
ValidateAccept ==
    /\ pc = "parse"
    /\ iarg > Len(argv)
    /\ Rejection = << >>
    /\ pc' = "setRequestedCpu"
    /\ UNCHANGED <<argv, iarg, locals, harness, constructed, calls, result,
                   stdout, exitStatus>>

-----------------------------------------------------------------------------
(* main(): construction and configuration of the harness, lines 160-196 *)

\* line 160
SetRequestedCpu ==
    /\ pc = "setRequestedCpu"
    /\ calls' = Append(calls, Call("audioSink", "setRequestedCpu", <<cpuAffinity>>))
    /\ pc' = "createHarness"
    /\ UNCHANGED <<argv, iarg, locals, harness, constructed, result, stdout, exitStatus>>

\* mutant: case 'j' constructs the harness of case 'u'
HarnessClass_JitterAsUtilization(code) ==
    CASE code = "v" -> "VoiceMarkHarness"
      [] code = "l" -> "LatencyMarkHarness"
      [] code = "j" -> "UtilizationMarkHarness"
      [] code = "u" -> "UtilizationMarkHarness"
      [] OTHER -> "none"

\* the class each case of the switch constructs; "none" for the default case
HarnessClass(code) ==
    CASE code = "v" -> "VoiceMarkHarness"
      [] code = "l" -> "LatencyMarkHarness"
      [] code = "j" -> "JitterMarkHarness"
      [] code = "u" -> "UtilizationMarkHarness"
      [] OTHER -> "none"

\* the setters each case calls on the harness it has constructed
CaseSetters(code) ==
    CASE code = "v" -> << [fn |-> "setTargetCpuLoad", field |-> "targetCpuLoad",
                           arg |-> TimesOneHundredth(percentCpu)],
                          [fn |-> "setInitialVoiceCount", field |-> "initialVoiceCount",
                           arg |-> numVoices] >>
      [] code = "l" -> << [fn |-> "setNumVoicesHigh", field |-> "numVoicesHigh",
                           arg |-> numVoicesHigh] >>
      [] code = "u" -> << [fn |-> "setNumVoices", field |-> "numVoices",
                           arg |-> numVoices] >>
      [] OTHER -> << >>

\* lines 195-196
CommonSetters ==
    << [fn |-> "setNumVoices", field |-> "numVoices", arg |-> numVoices],
       [fn |-> "setDelayNotesOn", field |-> "delayNotesOn", arg |-> numSecondsDelayNoteOn] >>

RECURSIVE ApplySetters(_, _)
ApplySetters(h, setters) ==
    IF setters = << >> THEN h
    ELSE ApplySetters(SetField(h, Head(setters).field, Head(setters).arg),
                      SubSeq(setters, 2, Len(setters)))

SetterCalls(setters) ==
    [i \in 1..Len(setters) |-> Call("harness", setters[i].fn, <<setters[i].arg>>)]

\* cases 'v', 'l', 'j', 'u' of the switch on testCode
CreateHarness ==
    /\ pc = "createHarness"
    /\ HarnessClass(testCode) # "none"
    /\ constructed' = Append(constructed,
                             [class |-> HarnessClass(testCode), id |-> "harness"])
    /\ harness' = ApplySetters(NewHarness(HarnessClass(testCode)), CaseSetters(testCode))
    /\ calls' = calls \o SetterCalls(CaseSetters(testCode))
    /\ pc' = "setCommon"
    /\ UNCHANGED <<argv, iarg, locals, result, stdout, exitStatus>>

\* default case of the switch on testCode
CreateHarnessUnrecognized ==
    /\ pc = "createHarness"
    /\ HarnessClass(testCode) = "none"
    /\ stdout' = stdout \o << <<"ERROR - unrecognized testCode", testCode>>, Usage >>
    /\ Return(1)
    /\ UNCHANGED <<argv, iarg, locals, harness, constructed, calls, result>>

\* lines 195-196
SetCommon ==
    /\ pc = "setCommon"
    /\ harness' = ApplySetters(harness, CommonSetters)
    /\ calls' = calls \o SetterCalls(CommonSetters)
    /\ pc' = "showParameters"
    /\ UNCHANGED <<argv, iarg, locals, constructed, result, stdout, exitStatus>>

\* lines 199-208
ShowParameters ==
    /\ pc = "showParameters"
    /\ stdout' = Append(stdout,
                        <<"parameters", harness.class, numVoices, numVoicesHigh,
                          numSecondsDelayNoteOn, percentCpu, framesPerBurst,
                          cpuAffinity, numSeconds>>)
    /\ pc' = "runTest"
    /\ UNCHANGED <<argv, iarg, locals, harness, constructed, calls, result, exitStatus>>

-----------------------------------------------------------------------------
(* main(): the run and its result, lines 211-219 *)

\* What a run may leave in the SynthMarkResult: 0 for a pass, non-zero for a
\* failure kind.
ResultCodes == {0, 1}

\* mutant: setDelayNotesOn is called after runTest instead of before it
RunTest_ThenSetDelay ==
    /\ pc = "runTest"
    /\ calls' = calls \o << Call("harness", "runTest",
                                 <<sampleRate, framesPerBurst, numSeconds>>),
                            Call("harness", "setDelayNotesOn", <<numSecondsDelayNoteOn>>) >>
    /\ harness' = SetField(harness, "delayNotesOn", numSecondsDelayNoteOn)
    /\ pc' = "running"
    /\ UNCHANGED <<argv, iarg, locals, constructed, result, stdout, exitStatus>>

\* line 211, the call
RunTest ==
    /\ pc = "runTest"
    /\ calls' = Append(calls, Call("harness", "runTest",
                                   <<sampleRate, framesPerBurst, numSeconds>>))
    /\ pc' = "running"
    /\ UNCHANGED <<argv, iarg, locals, harness, constructed, result, stdout, exitStatus>>

\* line 211, runTest returns with the SynthMarkResult filled in
RunTestReturn ==
    /\ pc = "running"
    /\ \E code \in ResultCodes : result' = [set |-> TRUE, code |-> code]
    /\ calls' = Append(calls, Call("harness", "runTest returns", << >>))
    /\ pc' = "results"
    /\ UNCHANGED <<argv, iarg, locals, harness, constructed, stdout, exitStatus>>

\* lines 214-217
ReportResults ==
    /\ pc = "results"
    /\ calls' = Append(calls, Call("result", "getResultMessage", << >>))
    /\ stdout' = stdout \o << <<"RESULTS BEGIN">>, <<"message", result.code>>,
                              <<"RESULTS END">>, <<"Benchmark complete.">> >>
    /\ pc' = "return"
    /\ UNCHANGED <<argv, iarg, locals, harness, constructed, result, exitStatus>>

\* line 219
ReturnResultCode ==
    /\ pc = "return"
    /\ calls' = Append(calls, Call("result", "getResultCode", << >>))
    /\ Return(result.code)
    /\ UNCHANGED <<argv, iarg, locals, harness, constructed, result, stdout>>

-----------------------------------------------------------------------------

Next ==
    \/ ParseOption
    \/ ParseHelp
    \/ ParseUnrecognizedSwitch
    \/ ParseUnrecognizedArgument
    \/ ValidateReject
    \/ ValidateAccept
    \/ SetRequestedCpu
    \/ CreateHarness
    \/ CreateHarnessUnrecognized
    \/ SetCommon
    \/ ShowParameters
    \/ RunTest
    \/ RunTestReturn
    \/ ReportResults
    \/ ReturnResultCode

Spec == Init /\ [][Next]_vars

-----------------------------------------------------------------------------
(* Vocabulary of the properties *)

HarnessClasses ==
    {"VoiceMarkHarness", "LatencyMarkHarness", "JitterMarkHarness",
     "UtilizationMarkHarness"}

HarnessSetters ==
    {"setTargetCpuLoad", "setInitialVoiceCount", "setNumVoicesHigh",
     "setNumVoices", "setDelayNotesOn"}

VoiceCountSetters == {"setInitialVoiceCount", "setNumVoicesHigh", "setNumVoices"}

CallsOf(fn) == {i \in 1..Len(calls) : calls[i].fn = fn}

\* main() has called runTest
RunTestReached == CallsOf("runTest") # {}

\* the arguments of that call
RunTestArgs == calls[CHOOSE i \in CallsOf("runTest") : TRUE].args

HarnessesConstructed ==
    {i \in 1..Len(constructed) : constructed[i].class \in HarnessClasses}

\* the value a setter has stored in the harness
Given(f) == harness.fields[f]

Printed(msg) == \E i \in 1..Len(stdout) : stdout[i][1] = msg

\* the parsing loop has consumed every argument
ParsedAll == iarg > Len(argv)

\* the parsing loop has stopped at a help switch
HelpRequested ==
    /\ iarg <= Len(argv)
    /\ CharAt(argv[iarg], 0) = "-"
    /\ CharAt(argv[iarg], 1) \in {"h", "?"}

\* nothing of a harness exists and none has been used
NoHarness ==
    /\ harness = NULL
    /\ HarnessesConstructed = {}
    /\ \A i \in 1..Len(calls) : calls[i].obj # "harness"

\* the test code of the last -t argument of a command line, read off argv
RECURSIVE LastTestCode(_, _)
LastTestCode(args, n) ==
    IF n = 0 THEN "v"
    ELSE IF Len(args[n]) >= 2 /\ args[n][1] = "-" /\ args[n][2] = "t"
         THEN (IF Len(args[n]) >= 3 THEN args[n][3] ELSE NUL)
         ELSE LastTestCode(args, n - 1)

\* the harness the specification assigns to a test code
VariantOf(code) ==
    CASE code = "v" -> "VoiceMarkHarness"
      [] code = "l" -> "LatencyMarkHarness"
      [] code = "j" -> "JitterMarkHarness"
      [] code = "u" -> "UtilizationMarkHarness"
      [] OTHER -> "none"

-----------------------------------------------------------------------------
(* C1 *)

-----------------------------------------------------------------------------
(* C2 *)

\* C2: whenever runTest is reached, every voice count handed to the harness
\* (setNumVoices, setInitialVoiceCount, setNumVoicesHigh) lies in
\* 0..SYNTHMARK_MAX_VOICES.
C2_VoiceCountsInRange ==
    RunTestReached =>
        \A i \in 1..Len(calls) :
            calls[i].fn \in VoiceCountSetters
                => calls[i].args[1] \in 0..SYNTHMARK_MAX_VOICES

-----------------------------------------------------------------------------
(* C3 *)

\* C3: runTest(sampleRate, framesPerBurst, numSeconds) is called only with
\* framesPerBurst >= 4 and sampleRate > 0.
C3_BurstAndRateValid ==
    RunTestReached => (RunTestArgs[2] >= 4 /\ RunTestArgs[1] > 0)

-----------------------------------------------------------------------------
(* C4 *)

\* C4, as stated: a run that ends with a non-zero high voice count and a test
\* code other than 'l' has ended with status 1, no harness constructed and
\* runTest not called.
C4_HighOnlyLatencyExitsOne ==
    (pc = "done" /\ numVoicesHigh # 0 /\ testCode # "l")
        => (exitStatus = 1 /\ NoHarness /\ ~RunTestReached)

\* C4, amended: such a run ends with no harness constructed and runTest not
\* called, with status 1 unless the parsing loop stopped at a help switch
\* (status 0); and setNumVoicesHigh is never called on a harness other than
\* the LatencyMarkHarness.
C4_HighOnlyLatency ==
    /\ (pc = "done" /\ numVoicesHigh # 0 /\ testCode # "l")
          => /\ NoHarness
             /\ ~RunTestReached
             /\ IF HelpRequested THEN exitStatus = 0 ELSE exitStatus = 1
    /\ (harness # NULL /\ harness.class # "LatencyMarkHarness")
          => /\ CallsOf("setNumVoicesHigh") = {}
             /\ "numVoicesHigh" \notin DOMAIN harness.fields
             /\ numVoicesHigh = 0

C4_Witness ==
    /\ pc = "done"
    /\ ParsedAll
    /\ numVoicesHigh # 0
    /\ testCode \in {"v", "j", "u"}
    /\ Printed("Num voices high only supported for LatencyMark")
    /\ exitStatus = 1

-----------------------------------------------------------------------------
(* C5 *)

\* C5: every setter call precedes the call of runTest, runTest is called at
\* most once, getResultMessage and getResultCode are called only after runTest
\* has returned, and a run that reached runTest returns getResultCode().
C5_CallOrder ==
    /\ Cardinality(CallsOf("runTest")) <= 1
    /\ \A i, j \in 1..Len(calls) :
          (calls[i].fn = "runTest" /\ i < j)
              => calls[j].fn \notin HarnessSetters \cup {"setRequestedCpu"}
    /\ \A j \in 1..Len(calls) :
          calls[j].fn \in {"getResultMessage", "getResultCode"}
              => \E i \in 1..(j - 1) : calls[i].fn = "runTest returns"
    /\ \A j \in CallsOf("runTest returns") :
          \E i \in 1..(j - 1) : calls[i].fn = "runTest"
    /\ (pc = "done" /\ RunTestReached)
          => /\ result.set
             /\ exitStatus = result.code
             /\ calls[Len(calls)].fn = "getResultCode"

C5_Witness ==
    /\ pc = "done"
    /\ RunTestReached
    /\ CallsOf("setDelayNotesOn") # {}
    /\ CallsOf("getResultMessage") # {}
    /\ exitStatus = 1

-----------------------------------------------------------------------------
(* C6 *)

RejectionMessages ==
    {"Invalid percent CPU", "Invalid num voices", "Invalid num voices high",
     "Num voices high only supported for LatencyMark",
     "Invalid duration in seconds", "Invalid delay for note on",
     "Block size too small", "Unrecognized switch", "Unrecognized argument",
     "ERROR - unrecognized testCode"}

Rejected == \E msg \in RejectionMessages : Printed(msg)

\* C6: once a validation check has failed (its message is printed), the
\* program returns 1, no harness has been constructed, no harness setter has
\* been called and runTest is not called.
C6_RejectedBeforeConstruction ==
    Rejected => /\ pc = "done"
                /\ exitStatus = 1
                /\ NoHarness
                /\ ~RunTestReached

C6_Witness ==
    /\ Printed("ERROR - unrecognized testCode")
    /\ CallsOf("setRequestedCpu") # {}
    /\ exitStatus = 1

-----------------------------------------------------------------------------
(* C7 *)

\* C7: whenever runTest is reached on a VoiceMarkHarness or a
\* UtilizationMarkHarness, setTargetCpuLoad has been called on it with
\* percentCpu * 0.01, a fraction in (0, 1].
C7_TargetLoadDelivered ==
    (RunTestReached
        /\ harness.class \in {"VoiceMarkHarness", "UtilizationMarkHarness"})
        => /\ CallsOf("setTargetCpuLoad") # {}
           /\ "targetCpuLoad" \in DOMAIN harness.fields
           /\ Given("targetCpuLoad").num * 100 = percentCpu * Given("targetCpuLoad").den
           /\ 0 < Given("targetCpuLoad").num
           /\ Given("targetCpuLoad").num <= Given("targetCpuLoad").den

-----------------------------------------------------------------------------
(* C8 *)

\* C8: whenever runTest is reached, the delay handed to setDelayNotesOn is at
\* least 0 and at most the duration handed to runTest, which is at least 1.
C8_DelayWithinDuration ==
    RunTestReached =>
        /\ 0 <= Given("delayNotesOn")
        /\ Given("delayNotesOn") <= RunTestArgs[3]
        /\ RunTestArgs[3] >= 1

C8_Witness ==
    /\ RunTestReached
    /\ Given("delayNotesOn") > 0
    /\ RunTestArgs[3] > Given("delayNotesOn")

-----------------------------------------------------------------------------
(* C9 *)

\* what C9 says of a run that reaches runTest: exactly one harness has been
\* constructed, of the variant of the last -t of the command line (VoiceMark
\* without -t), bound to the one VirtualAudioSink and the one SynthMarkResult
SelectedVariant ==
    RunTestReached =>
        /\ Cardinality(HarnessesConstructed) = 1
        /\ harness.class \in HarnessClasses
        /\ harness.class = VariantOf(LastTestCode(argv, Len(argv)))
        /\ \A i \in HarnessesConstructed : constructed[i].class = harness.class
        /\ {constructed[i].id : i \in {k \in 1..Len(constructed) :
                constructed[k].class = "VirtualAudioSink"}} = {harness.audioSink}
        /\ {constructed[i].id : i \in {k \in 1..Len(constructed) :
                constructed[k].class = "SynthMarkResult"}} = {harness.result}

\* C9, as stated: the above, and a run that ends with a test code outside
\* v, l, j, u has ended with status 1 and no harness constructed.
C9_ClosedSetExitsOne ==
    /\ SelectedVariant
    /\ (pc = "done" /\ VariantOf(testCode) = "none")
          => (exitStatus = 1 /\ NoHarness)

\* C9, amended: the above, and a run that ends with a test code outside
\* v, l, j, u has ended with no harness constructed, with status 1 unless the
\* parsing loop stopped at a help switch (status 0).
C9_ClosedSet ==
    /\ SelectedVariant
    /\ (pc = "done" /\ VariantOf(testCode) = "none")
          => /\ NoHarness
             /\ IF HelpRequested THEN exitStatus = 0 ELSE exitStatus = 1

C9_Witness ==
    /\ RunTestReached
    /\ Cardinality({i \in 1..Len(argv) : CharAt(argv[i], 1) = "t"}) >= 2
    /\ harness.class = "UtilizationMarkHarness"

-----------------------------------------------------------------------------
(* C10 *)

\* C10: if runTest is reached with a voice count of 0, the harness is the
\* LatencyMarkHarness and its high voice count is positive; on the other
\* three harnesses runTest is reached only with a voice count of at least 1.
C10_ZeroVoicesOnlyLatency ==
    RunTestReached =>
        /\ Given("numVoices") = 0
              => /\ harness.class = "LatencyMarkHarness"
                 /\ Given("numVoicesHigh") > 0
        /\ harness.class # "LatencyMarkHarness" => Given("numVoices") >= 1

C10_Witness ==
    /\ RunTestReached
    /\ Given("numVoices") = 0
    /\ harness.class = "LatencyMarkHarness"

=============================================================================
